---- MODULE Spec2Model ----
(***************************************************************************)
(* Training orchestration of src/trainer.py: the entry points train and    *)
(* train_ddp, the distributed worker train_worker and the epoch/dataset    *)
(* loop train_loop, one process per rank.                                   *)
(***************************************************************************)
EXTENDS Integers, Sequences, FiniteSets, TLC

\* ----------------------------------------------------------------- bounds
MaxWorld == 2
MaxEpochs == 2
MaxExamples == 2
MaxValExamples == 2
MaxWarmup == 2
BatchSize == 1
MaxLogStep == 2

Ranks == 0..(MaxWorld - 1)
DatasetNames == {"nli", "stsb"}
TrainOrders == {<<"nli">>, <<"stsb">>, <<"nli", "stsb">>}

\* ----------------------------------------------------------------- floats
\* A Python float of the run: a number (in hundredths), NaN or -inf.
Num(v) == [k |-> "num", v |-> v]
NaN == [k |-> "nan", v |-> 0]
NegInf == [k |-> "ninf", v |-> 0]

\* What evaluate can return: the pair (pearson, spearman).
EvalResults == {<<NaN, NaN>>, <<Num(40), Num(60)>>, <<Num(80), Num(100)>>}

\* float > float
PyGt(a, b) ==
    IF a.k = "nan" \/ b.k = "nan" THEN FALSE
    ELSE IF a.k = "ninf" THEN FALSE
    ELSE IF b.k = "ninf" THEN TRUE
    ELSE a.v > b.v

\* (results[0] + results[1]) / 2
CombinedScore(res) ==
    IF res[1].k = "nan" \/ res[2].k = "nan" THEN NaN
    ELSE Num((res[1].v + res[2].v) \div 2)

\* ---------------------------------------------------------------- loaders
Ceil(a, b) == (a + b - 1) \div b

\* A DataLoader: the examples of its dataset, the replicas its sampler shards
\* them over (1: not sharded), the rank whose share it yields and the epoch its
\* sampler was last set to.
Loader(n) == [n |-> n, replicas |-> 1, rank |-> 0, epoch |-> 0]

\* The sampler built without num_replicas: every process keeps the whole split
ShardedUnsplit(loader, world, rank) ==
    [n |-> loader.n, replicas |-> 1, rank |-> rank, epoch |-> 0]

\* The sampler built without the process's rank: every process takes shard 0
ShardedRankZero(loader, world, rank) ==
    [n |-> loader.n, replicas |-> world, rank |-> 0, epoch |-> 0]

\* DataLoader(dataset, batch_size, sampler=DistributedSampler(dataset, world))
Sharded(loader, world, rank) ==
    [n |-> loader.n, replicas |-> world, rank |-> rank, epoch |-> 0]

\* The orders torch.randperm(n) can give: the sampler of every process draws
\* the same one, from the seed and the epoch
Perms(n) ==
    {f \in [0..(n - 1) -> 0..(n - 1)] : \A i, j \in 0..(n - 1) : f[i] = f[j] => i = j}

\* iter(DistributedSampler): the order is padded with its own head up to
\* ceil(n / replicas) * replicas entries, of which the process takes those at
\* rank, rank + replicas, rank + 2 * replicas, ...
SamplerIndices(loader, perm) ==
    [j \in 1..Ceil(loader.n, loader.replicas) |->
        perm[(loader.rank + (j - 1) * loader.replicas) % loader.n]]

\* len(loader): batches of the rank's share, ceil(n / replicas) examples.
LoaderLen(loader) == Ceil(Ceil(loader.n, loader.replicas), BatchSize)

\* The splits of one dataset; -1 stands for a split that is absent.
SplitMap(t, v) ==
    [s \in ((IF t >= 0 THEN {"train"} ELSE {}) \cup
            (IF v >= 0 THEN {"validation"} ELSE {}))
        |-> Loader(IF s = "train" THEN t ELSE v)]

SplitMaps == {SplitMap(t, v) : t \in -1..MaxExamples, v \in -1..MaxValExamples}

RECURSIVE SumSeq(_)
SumSeq(s) == IF s = <<>> THEN 0 ELSE Head(s) + SumSeq(Tail(s))

InOrder(order, name) == \E i \in 1..Len(order) : order[i] = name

\* --------------------------------------------------------------- schedule
Max(a, b) == IF a >= b THEN a ELSE b

\* The decay measured from step 0 instead of from the end of the warmup
LrLambdaDecayFromZero(warmup, total, step) ==
    IF step < warmup
    THEN [num |-> step, den |-> Max(1, warmup)]
    ELSE [num |-> Max(0, total - step), den |-> Max(1, total)]

\* The multiplier get_linear_schedule_with_warmup gives the base rate at
\* `step`, as the fraction num/den (den >= 1).
LrLambda(warmup, total, step) ==
    IF step < warmup
    THEN [num |-> step, den |-> Max(1, warmup)]
    ELSE [num |-> Max(0, total - step), den |-> Max(1, total - warmup)]

\* The step budget of one epoch, the epochs forgotten
TotalStepsOneEpoch(dl, names, epochs) ==
    SumSeq([i \in 1..Len(names) |->
               IF "train" \in DOMAIN dl[names[i]]
               THEN LoaderLen(dl[names[i]]["train"])
               ELSE 0])

\* sum(len(loaders[name]["train"]) for name in names if "train" in ...) * epochs
TotalSteps(dl, names, epochs) ==
    SumSeq([i \in 1..Len(names) |->
               IF "train" \in DOMAIN dl[names[i]]
               THEN LoaderLen(dl[names[i]]["train"])
               ELSE 0]) * epochs

\* ------------------------------------------------------------------ state
VARIABLES
    entry,          \* "train" or "train_ddp": the entry point called
    device_count,   \* torch.cuda.device_count()
    train_datasets, \* experiment.train_datasets
    num_epochs,     \* experiment.num_epochs
    warmup_steps,   \* experiment.warmup_steps
    loaders,        \* rank -> its process's experiment.data.data_loaders
    main,           \* the calling process: start, running, spawned, returned, raised
    pc,             \* rank -> position of the process in train / train_worker
    err,            \* rank -> the exception the process raised, or "none"
    pg,             \* rank -> its membership of the process group
    writer,         \* rank -> its SummaryWriter: none, open, closed
    training,       \* rank -> embedder.training
    epoch,          \* rank -> epoch of train_loop
    ds_idx,         \* rank -> index in train_datasets of the current dataset
    batch_idx,      \* rank -> batches of train_loader already processed
    val_loader,     \* rank -> val_loader of train_loop (NoLoader: None)
    total_steps,    \* rank -> total_steps given to the scheduler
    scheduler,      \* rank -> "built" once setup_scheduler returned one
    sched_steps,    \* rank -> scheduler.step() calls made
    global_step,    \* rank -> global_step
    best,           \* rank -> best_stsb_score
    results,        \* rank -> what its last call of evaluate returned
    found_inf,      \* rank -> the scaler found an inf/NaN gradient in this batch
    ops,            \* rank -> calls made for the current batch, in order
    effects,        \* rank -> side effects of the current dataset-epoch
    all_effects,    \* rank -> side effects of the whole run
    observed,       \* the combined scores computed so far, in order
    ckpt,           \* weights/{name}.pt
    embedder,       \* rank -> the embedder: "plain", or "ddp" once wrapped
    model_training, \* rank -> embedder.model.training
    fwd,            \* rank -> the last forward pass the process ran
    entries,        \* rank -> the scalars its writer recorded, in order
    call            \* a call of log_metrics made from outside train_loop

vars == <<entry, device_count, train_datasets, num_epochs, warmup_steps, loaders,
          main, pc, err, pg, writer, training, epoch, ds_idx, batch_idx,
          val_loader, total_steps, scheduler, sched_steps, global_step, best,
          results, found_inf, ops, effects, all_effects, observed, ckpt,
          embedder, model_training, fwd, entries, call>>

config == <<entry, device_count, train_datasets, num_epochs, warmup_steps>>

NoLoader == [n |-> -1, replicas |-> 1, rank |-> 0, epoch |-> 0]
NoCkpt == [at |-> 0, step |-> 0, by |-> -1]
NoForward == [kind |-> "none", on |-> "plain", loader |-> NoLoader,
              modes |-> {}, grad |-> TRUE]
NoCall == [sink |-> "none", dataset_name |-> "nli", metric_name |-> "train_loss",
           value |-> NaN, step |-> 0, before |-> <<>>, status |-> "idle"]

\* is_ddp, world_size and the ranks of the run
IsDdp == entry = "train_ddp"
WorldSize == IF IsDdp THEN device_count ELSE 1
Active == {r \in Ranks : r < WorldSize}

\* The data mappings of the runs: the splits of a dataset that is not trained
\* on are never read, but for the benchmark's validation split.
DataMappings(order) ==
    {dl \in [DatasetNames -> SplitMaps] :
        /\ ~InOrder(order, "nli") => dl["nli"] = SplitMap(-1, -1)
        /\ ~InOrder(order, "stsb") => "train" \notin DOMAIN dl["stsb"]}

\* Before an entry point is called: the experiment as configured, no process
\* started, nothing written
Fresh ==
    /\ entry \in {"train", "train_ddp"}
    /\ device_count \in 0..MaxWorld
    /\ entry = "train" => device_count = 1
    /\ train_datasets \in TrainOrders
    /\ num_epochs \in 1..MaxEpochs
    /\ warmup_steps \in 0..MaxWarmup
    /\ \E dl \in DataMappings(train_datasets) : loaders = [r \in Ranks |-> dl]
    /\ main = "start"
    /\ pc = [r \in Ranks |-> "idle"]
    /\ err = [r \in Ranks |-> "none"]
    /\ pg = [r \in Ranks |-> "none"]
    /\ writer = [r \in Ranks |-> "none"]
    /\ training = [r \in Ranks |-> TRUE]
    /\ epoch = [r \in Ranks |-> 0]
    /\ ds_idx = [r \in Ranks |-> 0]
    /\ batch_idx = [r \in Ranks |-> 0]
    /\ val_loader = [r \in Ranks |-> NoLoader]
    /\ total_steps = [r \in Ranks |-> 0]
    /\ scheduler = [r \in Ranks |-> "none"]
    /\ sched_steps = [r \in Ranks |-> 0]
    /\ global_step = [r \in Ranks |-> 0]
    /\ best = [r \in Ranks |-> NegInf]
    /\ results = [r \in Ranks |-> <<NaN, NaN>>]
    /\ found_inf = [r \in Ranks |-> FALSE]
    /\ ops = [r \in Ranks |-> <<>>]
    /\ effects = [r \in Ranks |-> {}]
    /\ all_effects = [r \in Ranks |-> {}]
    /\ observed = <<>>
    /\ ckpt = NoCkpt
    /\ embedder = [r \in Ranks |-> "plain"]
    /\ model_training = [r \in Ranks |-> TRUE]
    /\ fwd = [r \in Ranks |-> NoForward]

Init ==
    /\ Fresh
    /\ entries = [r \in Ranks |-> <<>>]
    /\ call = NoCall

\* ---------------------------------------------------------------- helpers
Raise(r, e) ==
    /\ pc' = [pc EXCEPT ![r] = "raised"]
    /\ err' = [err EXCEPT ![r] = e]

Goto(r, where) ==
    /\ pc' = [pc EXCEPT ![r] = where]
    /\ UNCHANGED err

\* The process adds the side effects S to those of the dataset-epoch and of the run.
Emit(r, S) ==
    /\ effects' = [effects EXCEPT ![r] = @ \cup S]
    /\ all_effects' = [all_effects EXCEPT ![r] = @ \cup S]

\* A writer on every process
InitializeWriterAlways(is_master) == "open"

\* initialize_writer(name, is_master)
InitializeWriter(is_master) == IF is_master THEN "open" ELSE "none"

\* `if writer and rank == 0`
Gated(w, rank) == w = "open" /\ rank = 0

\* `if rank == 0` of the progress lines
IsRankZero(rank) == rank = 0

\* The dataset of the process's current dataset-epoch
CurrentName(r) == train_datasets[ds_idx[r]]

\* The comparison with >= : a tie saves again
ShouldSaveOnTie(score, best_so_far) ==
    PyGt(score, best_so_far) \/ (score.k = "num" /\ score = best_so_far)

\* The comparison as `not (score < best)`: a tie and a NaN save
ShouldSaveUnlessLower(score, best_so_far) == ~PyGt(best_so_far, score)

\* `if current_stsb_score > best_stsb_score`
ShouldSave(score, best_so_far) == PyGt(score, best_so_far)

\* save_best_model: the file holds the parameters of the model at this boundary
SaveBestModel(r, boundary) == [at |-> boundary, step |-> global_step[r], by |-> r]

\* What evaluate raises on the data mapping, "none" when it returns:
\* data_loader["stsb"]["validation"] missing, torch.cat of no batch, and
\* pearsonr of fewer than two examples.
EvaluateError(dl) ==
    IF "validation" \notin DOMAIN dl["stsb"] THEN "KeyError_stsb"
    ELSE IF LoaderLen(dl["stsb"]["validation"]) = 0 THEN "RuntimeError"
    ELSE IF dl["stsb"]["validation"].n < 2 THEN "ValueError"
    ELSE "none"

\* Every split of the training datasets replaced by a shard, not only "train"
ReshardEverySplit(dl, names, i, world, rank) ==
    [dl |-> [d \in DOMAIN dl |->
                IF InOrder(names, d)
                THEN [k \in DOMAIN dl[d] |-> Sharded(dl[d][k], world, rank)]
                ELSE dl[d]],
     ok |-> \A j \in i..Len(names) : "train" \in DOMAIN dl[names[j]]]

\* The loop of train_worker over experiment.train_datasets, from index i:
\* the mapping it leaves, and whether it got through.
RECURSIVE ReshardFrom(_, _, _, _, _)
ReshardFrom(dl, names, i, world, rank) ==
    IF i > Len(names) THEN [dl |-> dl, ok |-> TRUE]
    ELSE IF "train" \notin DOMAIN dl[names[i]] THEN [dl |-> dl, ok |-> FALSE]
    ELSE ReshardFrom(
            [dl EXCEPT ![names[i]] =
                [@ EXCEPT !["train"] = Sharded(@, world, rank)]],
            names, i + 1, world, rank)

\* The schedule not advanced when the optimizer step was skipped
StepOpsSkipSchedule(inf) ==
    IF inf THEN <<"scaler_step", "scaler_update">>
    ELSE <<"scaler_step", "optimizer_step", "scaler_update", "scheduler_step">>

\* The calls of one batch after the backward pass
StepOps(inf) ==
    (IF inf THEN <<"scaler_step">> ELSE <<"scaler_step", "optimizer_step">>)
        \o <<"scaler_update", "scheduler_step">>

\* How often a call occurs among the calls of a batch
Calls(calls, what) == Cardinality({i \in DOMAIN calls : calls[i] = what})

\* Every split taken for a validation split
ValSplitKeysAny(splits) == DOMAIN splits

\* The splits of the dataset with "validation" in their name
ValSplitKeys(splits) == {key \in DOMAIN splits : key = "validation"}

\* The loss of a batch or of a validation pass: some number, which the
\* control flow never reads
SomeLoss == Num(0)

\* log_metrics: writer.add_scalar(f"{dataset_name}/{metric_name}", value,
\* global_step) appends one scalar to the writer's record; on a writer that is
\* None the attribute lookup raises AttributeError.
LogMetrics(w, dataset_name, metric_name, value, step, store) ==
    IF w = "none"
    THEN [raised |-> TRUE, store |-> store]
    ELSE [raised |-> FALSE,
          store |-> Append(store, [key |-> <<dataset_name, metric_name>>,
                                   value |-> value, step |-> step])]

\* The mode left as it was at the head of a dataset-epoch
TrainModeKept(prev) == prev

\* module.train(): training mode, whatever the mode was
TrainMode(prev) == TRUE

\* module.eval(): evaluation mode, whatever the mode was
EvalMode(prev) == FALSE

\* The embedder evaluated as it is, wrapped or not
ModelToEvaluateAsIs(e, is_ddp) == e

\* `embedder.module if is_ddp else embedder`
ModelToEvaluate(e, is_ddp) == IF is_ddp THEN "plain" ELSE e

\* The sampler's epoch never set
SetEpochNever(loader, is_ddp, e) == loader

\* `if is_ddp: train_loader.sampler.set_epoch(epoch)`
SetEpoch(loader, is_ddp, e) ==
    IF is_ddp THEN [loader EXCEPT !.epoch = e] ELSE loader

\* A forward pass: on which module, over which loader, the training flags of
\* the modules it runs, and whether gradients are recorded
Forward(kind, on, loader, modes, grad) ==
    [kind |-> kind, on |-> on, loader |-> loader, modes |-> modes, grad |-> grad]

loopvars == <<epoch, ds_idx, batch_idx, val_loader>>
stepvars == <<total_steps, scheduler, sched_steps, global_step, found_inf, ops>>
fxvars == <<effects, all_effects>>
diskvars == <<results, observed, ckpt>>
modevars == <<model_training, fwd>>

\* The forward passes of evaluate, if the benchmark's validation split has a
\* batch: on the model handed over, in evaluation mode, without gradients
EvaluateForward(r, last) ==
    IF "validation" \in DOMAIN loaders[r]["stsb"]
    THEN IF LoaderLen(loaders[r]["stsb"]["validation"]) > 0
         THEN Forward("evaluate", ModelToEvaluate(embedder[r], IsDdp),
                      loaders[r]["stsb"]["validation"],
                      {EvalMode(model_training[r])}, FALSE)
         ELSE last
    ELSE last

\* ------------------------------------------------------------ entry points
\* train, up to the call of train_loop
Train ==
    /\ main = "start"
    /\ entry = "train"
    /\ main' = "running"
    /\ writer' = [writer EXCEPT ![0] = InitializeWriter(TRUE)]
    /\ all_effects' = [all_effects EXCEPT ![0] = @ \cup {"writer"}]
    /\ Goto(0, "setup")
    /\ UNCHANGED <<config, call, embedder, modevars, entries,
                   loaders, pg, training, loopvars, stepvars, best,
                   effects, diskvars>>

\* train, after train_loop returned or raised
TrainReturn ==
    /\ main = "running"
    /\ pc[0] \in {"returned", "raised"}
    /\ IF pc[0] = "returned"
       THEN /\ main' = "returned"
            /\ writer' = [writer EXCEPT ![0] = IF @ = "open" THEN "closed" ELSE @]
            /\ Goto(0, "done")
       ELSE /\ main' = "raised"
            /\ UNCHANGED <<writer, pc, err>>
    /\ UNCHANGED <<config, call, embedder, modevars, entries,
                   loaders, pg, training, loopvars, stepvars, best,
                   fxvars, diskvars>>

\* Only a negative device count refused
NoDevicesNegative(n) == n < 0

\* `if world_size < 1`
NoDevices(n) == n < 1

\* train_ddp, up to mp.spawn
TrainDdp ==
    /\ main = "start"
    /\ entry = "train_ddp"
    /\ IF NoDevices(device_count)
       THEN /\ main' = "raised"
            /\ UNCHANGED pc
       ELSE /\ main' = "spawned"
            /\ pc' = [r \in Ranks |-> IF r \in Active THEN "init_pg" ELSE pc[r]]
    /\ UNCHANGED <<config, call, embedder, modevars, entries,
                   loaders, err, pg, writer, training, loopvars,
                   stepvars, best, fxvars, diskvars>>

\* mp.spawn(join=True): returns when every worker has finished, and on a
\* worker's failure terminates the others and raises.
SpawnJoin ==
    /\ main = "spawned"
    /\ LET failed == {r \in Active : pc[r] = "raised"} IN
        /\ failed = {} => \A r \in Active : pc[r] = "done"
        /\ IF failed = {}
           THEN /\ main' = "returned"
                /\ UNCHANGED pc
           ELSE /\ main' = "raised"
                /\ pc' = [r \in Ranks |->
                            IF r \in Active /\ pc[r] \notin {"done", "raised"}
                            THEN "killed" ELSE pc[r]]
    /\ UNCHANGED <<config, call, embedder, modevars, entries,
                   loaders, err, pg, writer, training, loopvars,
                   stepvars, best, fxvars, diskvars>>

\* ------------------------------------------------------------ train_worker
\* dist.init_process_group, the device and the DistributedDataParallel wrapper
InitProcessGroup(r) ==
    /\ pc[r] = "init_pg"
    /\ pg' = [pg EXCEPT ![r] = "joined"]
    /\ embedder' = [embedder EXCEPT ![r] = "ddp"]
    /\ Goto(r, "init_writer")
    /\ UNCHANGED <<config, call, modevars, entries,
                   loaders, main, writer, training, loopvars, stepvars,
                   best, fxvars, diskvars>>

\* is_master, initialize_writer and the weights directory
InitWriter(r) ==
    /\ pc[r] = "init_writer"
    /\ LET is_master == (r = 0) IN
        /\ writer' = [writer EXCEPT ![r] = InitializeWriter(is_master)]
        /\ all_effects' = [all_effects EXCEPT ![r] =
                @ \cup (IF InitializeWriter(is_master) = "open" THEN {"writer"} ELSE {})
                  \cup (IF is_master THEN {"makedirs"} ELSE {})]
    /\ Goto(r, "reshard")
    /\ UNCHANGED <<config, call, embedder, modevars, entries,
                   loaders, main, pg, training, loopvars, stepvars,
                   best, effects, diskvars>>

\* The train loaders are replaced by rank-sharded ones
Reshard(r) ==
    /\ pc[r] = "reshard"
    /\ LET res == ReshardFrom(loaders[r], train_datasets, 1, WorldSize, r) IN
        /\ loaders' = [loaders EXCEPT ![r] = res.dl]
        /\ IF res.ok THEN Goto(r, "setup") ELSE Raise(r, "KeyError_train")
    /\ UNCHANGED <<config, call, embedder, modevars, entries,
                   main, pg, writer, training, loopvars, stepvars,
                   best, fxvars, diskvars>>

\* After train_loop: the writer is closed and the process group is left
Teardown(r) ==
    /\ IsDdp
    /\ pc[r] = "returned"
    /\ writer' = [writer EXCEPT ![r] = IF @ = "open" /\ r = 0 THEN "closed" ELSE @]
    /\ pg' = [pg EXCEPT ![r] = "destroyed"]
    /\ Goto(r, "done")
    /\ UNCHANGED <<config, call, embedder, modevars, entries,
                   loaders, main, training, loopvars, stepvars, best,
                   fxvars, diskvars>>

\* -------------------------------------------------------------- train_loop
\* The step budget, the scheduler, the scaler and the counters
Setup(r) ==
    /\ pc[r] = "setup"
    /\ total_steps' = [total_steps EXCEPT ![r] =
            TotalSteps(loaders[r], train_datasets, num_epochs)]
    /\ scheduler' = [scheduler EXCEPT ![r] = "built"]
    /\ sched_steps' = [sched_steps EXCEPT ![r] = 0]
    /\ global_step' = [global_step EXCEPT ![r] = 0]
    /\ best' = [best EXCEPT ![r] = NegInf]
    /\ epoch' = [epoch EXCEPT ![r] = 0]
    /\ Goto(r, "epoch_start")
    /\ UNCHANGED <<config, call, embedder, modevars, entries,
                   loaders, main, pg, writer, training, ds_idx,
                   batch_idx, val_loader, found_inf, ops, fxvars, diskvars>>

\* `for epoch in range(num_epochs)`: the next epoch's header, or the return
EpochStart(r) ==
    /\ pc[r] = "epoch_start"
    /\ IF epoch[r] < num_epochs
       THEN /\ all_effects' = [all_effects EXCEPT ![r] =
                    @ \cup (IF IsRankZero(r) THEN {"print_epoch"} ELSE {})]
            /\ ds_idx' = [ds_idx EXCEPT ![r] = 1]
            /\ Goto(r, "dataset_start")
       ELSE /\ Goto(r, "returned")
            /\ UNCHANGED <<all_effects, ds_idx>>
    /\ UNCHANGED <<config, call, embedder, modevars, entries,
                   loaders, main, pg, writer, training, epoch,
                   batch_idx, val_loader, stepvars, best, effects, diskvars>>

\* The end of the loop over the datasets: the blank line, and the next epoch
EpochEnd(r) ==
    /\ pc[r] = "dataset_start"
    /\ ds_idx[r] > Len(train_datasets)
    /\ all_effects' = [all_effects EXCEPT ![r] =
            @ \cup (IF IsRankZero(r) THEN {"print_epoch"} ELSE {})]
    /\ epoch' = [epoch EXCEPT ![r] = @ + 1]
    /\ Goto(r, "epoch_start")
    /\ UNCHANGED <<config, call, embedder, modevars, entries,
                   loaders, main, pg, writer, training, ds_idx,
                   batch_idx, val_loader, stepvars, best, effects, diskvars>>

\* The head of a dataset-epoch: training mode, the train loader, the sampler's
\* epoch and the validation loader
DatasetStart(r) ==
    /\ pc[r] = "dataset_start"
    /\ ds_idx[r] <= Len(train_datasets)
    /\ training' = [training EXCEPT ![r] = TrainMode(@)]
    /\ model_training' = [model_training EXCEPT ![r] = TrainMode(@)]
    /\ effects' = [effects EXCEPT ![r] = {}]
    /\ batch_idx' = [batch_idx EXCEPT ![r] = 0]
    /\ LET name == CurrentName(r)
           splits == loaders[r][name]
       IN IF "train" \notin DOMAIN splits
          THEN /\ Raise(r, "KeyError_train")
               /\ UNCHANGED <<loaders, val_loader>>
          ELSE /\ loaders' = [loaders EXCEPT ![r][name]["train"] =
                                SetEpoch(@, IsDdp, epoch[r])]
               /\ val_loader' = [val_loader EXCEPT ![r] =
                    IF ValSplitKeys(splits) = {} THEN NoLoader
                    ELSE LET key == CHOOSE k \in ValSplitKeys(splits) : TRUE IN
                         IF IsDdp THEN Sharded(splits[key], WorldSize, r)
                         ELSE splits[key]]
               /\ Goto(r, "batch")
    /\ UNCHANGED <<config, call, embedder, fwd, entries,
                   main, pg, writer, epoch, ds_idx, stepvars, best,
                   all_effects, diskvars>>

\* One batch up to the loss: gradients cleared, forward under autocast
BatchForward(r) ==
    /\ pc[r] = "batch"
    /\ batch_idx[r] < LoaderLen(loaders[r][CurrentName(r)]["train"])
    /\ ops' = [ops EXCEPT ![r] = <<"zero_grad", "forward">>]
    /\ fwd' = [fwd EXCEPT ![r] =
                Forward("train", embedder[r], loaders[r][CurrentName(r)]["train"],
                        {training[r], model_training[r]}, TRUE)]
    /\ Goto(r, "backward")
    /\ UNCHANGED <<config, call, embedder, model_training, entries,
                   loaders, main, pg, writer, training, loopvars,
                   total_steps, scheduler, sched_steps, global_step, found_inf,
                   best, fxvars, diskvars>>

\* scaler.scale(train_loss).backward(): the gradients are averaged over the
\* processes, which all have to reach this point, and they all see the same
\* gradients, overflowed or not.
Backward ==
    /\ Active # {}
    /\ \A r \in Active : pc[r] = "backward"
    /\ \E inf \in BOOLEAN :
        found_inf' = [r \in Ranks |-> IF r \in Active THEN inf ELSE found_inf[r]]
    /\ ops' = [r \in Ranks |->
                IF r \in Active THEN Append(ops[r], "scale_backward") ELSE ops[r]]
    /\ pc' = [r \in Ranks |-> IF r \in Active THEN "batch_step" ELSE pc[r]]
    /\ UNCHANGED <<config, call, embedder, modevars, entries,
                   loaders, main, err, pg, writer, training, loopvars,
                   total_steps, scheduler, sched_steps, global_step, best,
                   fxvars, diskvars>>

\* The rest of the batch: scaler step and update, scheduler step, the counter
\* and the train-loss entry
BatchStep(r) ==
    /\ pc[r] = "batch_step"
    /\ ops' = [ops EXCEPT ![r] = @ \o StepOps(found_inf[r])]
    /\ sched_steps' = [sched_steps EXCEPT ![r] =
            @ + Calls(StepOps(found_inf[r]), "scheduler_step")]
    /\ global_step' = [global_step EXCEPT ![r] = @ + 1]
    /\ batch_idx' = [batch_idx EXCEPT ![r] = @ + 1]
    /\ Emit(r, IF Gated(writer[r], r) THEN {"log_train_loss"} ELSE {})
    /\ entries' = [entries EXCEPT ![r] =
            IF Gated(writer[r], r)
            THEN LogMetrics(writer[r], CurrentName(r), "train_loss", SomeLoss,
                            global_step[r] + 1, @).store
            ELSE @]
    /\ Goto(r, "batch")
    /\ UNCHANGED <<config, call, embedder, modevars,
                   loaders, main, pg, writer, training, epoch, ds_idx,
                   val_loader, total_steps, scheduler, found_inf, best,
                   diskvars>>

\* After the last batch: avg_train_loss = total_train_loss / len(train_loader)
TrainEnd(r) ==
    /\ pc[r] = "batch"
    /\ batch_idx[r] >= LoaderLen(loaders[r][CurrentName(r)]["train"])
    /\ IF LoaderLen(loaders[r][CurrentName(r)]["train"]) = 0
       THEN Raise(r, "ZeroDivisionError")
       ELSE Goto(r, "validate")
    /\ UNCHANGED <<config, call, embedder, modevars, entries,
                   loaders, main, pg, writer, training, loopvars,
                   stepvars, best, fxvars, diskvars>>

\* The validation pass and the loss message
Validate(r) ==
    /\ pc[r] = "validate"
    /\ IF val_loader[r] # NoLoader
       THEN /\ training' = [training EXCEPT ![r] = EvalMode(@)]
            /\ model_training' = [model_training EXCEPT ![r] = EvalMode(@)]
            /\ fwd' = [fwd EXCEPT ![r] =
                        IF LoaderLen(val_loader[r]) > 0
                        THEN Forward("validation", embedder[r], val_loader[r],
                                     {EvalMode(training[r]),
                                      EvalMode(model_training[r])}, FALSE)
                        ELSE @]
            /\ Emit(r, IF Gated(writer[r], r)
                       THEN {"print_train_val", "log_val_loss"} ELSE {})
            /\ entries' = [entries EXCEPT ![r] =
                    IF Gated(writer[r], r)
                    THEN LogMetrics(writer[r], CurrentName(r), "val_loss",
                                    SomeLoss, global_step[r], @).store
                    ELSE @]
       ELSE /\ UNCHANGED <<training, modevars, entries>>
            /\ Emit(r, IF Gated(writer[r], r) THEN {"print_no_val"} ELSE {})
    /\ Goto(r, "evaluate")
    /\ UNCHANGED <<config, call, embedder,
                   loaders, main, pg, writer, loopvars, stepvars, best,
                   diskvars>>

\* The benchmark evaluation, the correlation entries and the checkpoint
\* decision, then the next dataset
Evaluate(r) ==
    /\ pc[r] = "evaluate"
    /\ IF ~Gated(writer[r], r)
       THEN /\ ds_idx' = [ds_idx EXCEPT ![r] = @ + 1]
            /\ Goto(r, "dataset_start")
            /\ UNCHANGED <<best, fxvars, diskvars, modevars, entries>>
       ELSE IF EvaluateError(loaders[r]) # "none"
       THEN /\ Raise(r, EvaluateError(loaders[r]))
            /\ Emit(r, {"evaluate"})
            /\ model_training' = [model_training EXCEPT ![r] = EvalMode(@)]
            /\ fwd' = [fwd EXCEPT ![r] = EvaluateForward(r, @)]
            /\ UNCHANGED <<ds_idx, best, diskvars, entries>>
       ELSE \E res \in EvalResults :
            LET score == CombinedScore(res)
                save == ShouldSave(score, best[r])
            IN  /\ model_training' = [model_training EXCEPT ![r] = EvalMode(@)]
                /\ fwd' = [fwd EXCEPT ![r] = EvaluateForward(r, @)]
                /\ entries' = [entries EXCEPT ![r] =
                        LogMetrics(writer[r], CurrentName(r), "spearmanr", res[2],
                                   global_step[r],
                                   LogMetrics(writer[r], CurrentName(r), "pearsonr",
                                              res[1], global_step[r], @).store).store]
                /\ results' = [results EXCEPT ![r] = res]
                /\ observed' = Append(observed, score)
                /\ best' = [best EXCEPT ![r] = IF save THEN score ELSE @]
                /\ ckpt' = IF save THEN SaveBestModel(r, Len(observed) + 1) ELSE ckpt
                /\ Emit(r, {"evaluate", "print_stsb", "log_corr", "compare"}
                           \cup (IF save THEN {"best", "checkpoint"} ELSE {}))
                /\ ds_idx' = [ds_idx EXCEPT ![r] = @ + 1]
                /\ Goto(r, "dataset_start")
    /\ UNCHANGED <<config, call, embedder,
                   loaders, main, pg, writer, training, epoch,
                   batch_idx, val_loader, stepvars>>

\* ---------------------------------------------------------- specification
Next ==
    \/ Train
    \/ TrainReturn
    \/ TrainDdp
    \/ SpawnJoin
    \/ Backward
    \/ \E r \in Ranks :
        \/ InitProcessGroup(r)
        \/ InitWriter(r)
        \/ Reshard(r)
        \/ Teardown(r)
        \/ Setup(r)
        \/ EpochStart(r)
        \/ EpochEnd(r)
        \/ DatasetStart(r)
        \/ BatchForward(r)
        \/ BatchStep(r)
        \/ TrainEnd(r)
        \/ Validate(r)
        \/ Evaluate(r)

Spec == Init /\ [][Next]_vars

\* ------------------------------------------------- log_metrics on its own
\* log_metrics called directly, with any writer argument, outside the gates
\* of train_loop
MetricNames == {"train_loss", "val_loss", "pearsonr", "spearmanr"}
LogValues == {Num(0), Num(50), NaN}
LogStores == {<<>>, <<[key |-> <<"nli", "train_loss">>, value |-> Num(0), step |-> 0]>>}

LogCalls ==
    [sink : {"none", "open"}, dataset_name : DatasetNames,
     metric_name : MetricNames, value : LogValues, step : 0..MaxLogStep,
     before : LogStores, status : {"pending"}]

InitLog ==
    /\ Fresh
    /\ entry = "train"
    /\ train_datasets = <<"nli">>
    /\ num_epochs = 1
    /\ warmup_steps = 0
    /\ loaders = [r \in Ranks |-> [d \in DatasetNames |-> SplitMap(-1, -1)]]
    /\ call \in LogCalls
    /\ entries = [r \in Ranks |-> IF r = 0 THEN call.before ELSE <<>>]

\* The call: the writer's record is that of process 0
LogMetricsCall ==
    /\ call.status = "pending"
    /\ LET out == LogMetrics(call.sink, call.dataset_name, call.metric_name,
                             call.value, call.step, entries[0])
       IN /\ entries' = [entries EXCEPT ![0] = out.store]
          /\ call' = [call EXCEPT !.status =
                        IF out.raised THEN "AttributeError" ELSE "returned"]
    /\ UNCHANGED <<config, loaders, main, pc, err, pg, writer, training,
                   loopvars, stepvars, best, fxvars, diskvars, embedder,
                   modevars>>

NextLog == LogMetricsCall

SpecLog == InitLog /\ [][NextLog]_vars

\* ------------------------------------------------------------------ claims
\* The batches of the train splits of all training datasets, as the process
\* sees them
TrainBatches(r) ==
    SumSeq([i \in 1..Len(train_datasets) |->
               LoaderLen(loaders[r][train_datasets[i]]["train"])])

\* C1: in train_loop the global step counter starts at 0, grows by exactly 1
\* with every processed training batch and by nothing else, and when
\* train_loop returns it equals num_epochs x (the batches of the train splits
\* of the training datasets), which is the total_steps given to the scheduler
\* and the number of scheduler.step() calls.
C1_GlobalStepCountsBatches ==
    [][\A r \in Ranks :
        /\ (pc[r] = "setup" /\ pc'[r] # "setup") => global_step'[r] = 0
        /\ (pc[r] # "setup" /\ batch_idx'[r] = batch_idx[r] + 1)
                => global_step'[r] = global_step[r] + 1
        /\ (pc[r] # "setup" /\ batch_idx'[r] # batch_idx[r] + 1)
                => global_step'[r] = global_step[r]
        /\ (pc[r] # "returned" /\ pc'[r] = "returned")
                => /\ global_step'[r] = num_epochs * TrainBatches(r)
                   /\ global_step'[r] = total_steps'[r]
                   /\ global_step'[r] = sched_steps'[r]]_vars

C1_Witness ==
    \E r \in Ranks :
        /\ pc[r] = "returned"
        /\ num_epochs >= 2
        /\ Len(train_datasets) = 2
        /\ global_step[r] >= 4
        /\ global_step[r] = total_steps[r]

\* float > float, said of the scores without the model's comparison
StrictlyGreater(score, b) ==
    /\ score.k = "num"
    /\ b.k # "nan"
    /\ b.k = "num" => score.v > b.v

\* C2: at every dataset-epoch boundary of the coordinating process the combined
\* score is the arithmetic mean of the Pearson and Spearman coefficients, and
\* the model is saved if and only if that score is strictly greater than the
\* best score so far; an equal score writes nothing, and a write sets the best
\* score to the score.
C2_SavedIffStrictlyGreater ==
    [][\A r \in Ranks :
        (pc[r] = "evaluate" /\ pc'[r] = "dataset_start" /\ Gated(writer[r], r)) =>
            /\ Len(observed') = Len(observed) + 1
            /\ LET score == observed'[Len(observed')]
                   p == results'[r][1]
                   q == results'[r][2]
               IN  /\ score.k = "num" <=> (p.k = "num" /\ q.k = "num")
                   /\ score.k = "num" => 2 * score.v = p.v + q.v
                   /\ (ckpt' # ckpt) <=> StrictlyGreater(score, best[r])
                   /\ (ckpt' # ckpt) => (best'[r] = score /\ ckpt'.at = Len(observed'))
                   /\ (ckpt' = ckpt) => best'[r] = best[r]]_vars

\* A tie with the best score left the checkpoint of the first boundary alone.
C2_Witness ==
    /\ Len(observed) >= 2
    /\ observed[1].k = "num"
    /\ observed[2] = observed[1]
    /\ best[0] = observed[1]
    /\ ckpt.at = 1

\* The boundaries whose score is a number, and the earliest of those at which
\* the score was the highest observed so far
NumericBoundaries == {i \in 1..Len(observed) : observed[i].k = "num"}

EarliestMax ==
    CHOOSE i \in NumericBoundaries :
        \A j \in NumericBoundaries :
            /\ observed[j].v <= observed[i].v
            /\ observed[j].v = observed[i].v => i <= j

\* C3: within a run the best-score tracker starts at -inf and never decreases,
\* the checkpoint file holds the parameters of the earliest boundary whose score
\* is the maximum observed so far, and no file is written while no score
\* exceeded -inf (every score NaN).
C3_CheckpointIsEarliestMax ==
    /\ [](/\ NumericBoundaries = {} => (ckpt = NoCkpt /\ best[0] = NegInf)
          /\ NumericBoundaries # {} =>
                (ckpt.at = EarliestMax /\ best[0] = observed[EarliestMax]))
    /\ [][\A r \in Ranks : ~StrictlyGreater(best[r], best'[r])]_vars

\* The maximum came second and was tied third: the file is the second boundary's.
C3_Witness ==
    /\ Len(observed) >= 3
    /\ observed[1] = Num(50)
    /\ observed[2] = Num(90)
    /\ observed[3] = Num(90)
    /\ ckpt.at = 2
    /\ best[0] = Num(90)

\* The side effects of a run that went through on the coordinating process
MasterEffects ==
    {"writer", "print_epoch", "log_train_loss", "evaluate", "print_stsb",
     "log_corr", "compare"}

\* C4: in a distributed run only rank 0 creates a metric writer, records
\* entries, prints, evaluates, updates the best score and writes a checkpoint,
\* and no other rank does any of it; the single process of single-process mode
\* does all of it.
C4_RankGated ==
    /\ IsDdp => \A r \in Ranks \ {0} :
            /\ all_effects[r] = {}
            /\ effects[r] = {}
            /\ writer[r] = "none"
            /\ best[r] = NegInf
    /\ ckpt.by \in {-1, 0}
    /\ pc[0] = "done" =>
            /\ MasterEffects \subseteq all_effects[0]
            /\ NumericBoundaries # {} <=> {"best", "checkpoint"} \subseteq all_effects[0]
            /\ IsDdp <=> "makedirs" \in all_effects[0]

\* Two workers ran to the end, rank 0 wrote a checkpoint.
C4_Witness ==
    /\ IsDdp
    /\ WorldSize >= 2
    /\ pc[0] = "done"
    /\ pc[1] = "done"
    /\ global_step[1] >= 2
    /\ "checkpoint" \in all_effects[0]
    /\ ckpt.by = 0

\* The calls of a whole batch in the order of the claim
BatchOrder(skipped) ==
    <<"zero_grad", "forward", "scale_backward", "scaler_step">>
        \o (IF skipped THEN <<>> ELSE <<"optimizer_step">>)
        \o <<"scaler_update", "scheduler_step">>

IsPrefix(a, b) == Len(a) <= Len(b) /\ a = SubSeq(b, 1, Len(a))

\* The batches the process has been through, from its place in the loops
BatchesDone(r) ==
    (IF epoch[r] = 0 THEN 0 ELSE epoch[r] * TrainBatches(r))
        + SumSeq([i \in 1..(ds_idx[r] - 1) |->
                    LoaderLen(loaders[r][train_datasets[i]]["train"])])
        + batch_idx[r]

\* C5: every batch goes: clear gradients, forward, scaled backward, scaler
\* step (with the optimizer step unless the gradients overflowed), scaler
\* update, scheduler step; the schedule has advanced once for every batch
\* processed, skipped optimizer steps included.
C5_BatchOrder ==
    \A r \in Ranks :
        /\ IsPrefix(ops[r], BatchOrder(TRUE)) \/ IsPrefix(ops[r], BatchOrder(FALSE))
        /\ (pc[r] = "batch" /\ batch_idx[r] > 0) =>
                ops[r] = BatchOrder(found_inf[r])
        /\ pc[r] \in {"batch", "validate", "evaluate"} =>
                sched_steps[r] = BatchesDone(r)

\* Two batches done, the optimizer step of the last one skipped.
C5_Witness ==
    \E r \in Ranks :
        /\ pc[r] = "batch"
        /\ found_inf[r]
        /\ ops[r] = BatchOrder(TRUE)
        /\ sched_steps[r] >= 2

\* The coordinating process has just finished a dataset-epoch of a dataset
\* that has no split with "validation" in its name.
FinishedWithoutValidation(r) ==
    /\ pc[r] = "dataset_start"
    /\ ds_idx[r] > 1
    /\ Gated(writer[r], r)
    /\ "validation" \notin DOMAIN loaders[r][train_datasets[ds_idx[r] - 1]]

\* C6 as stated: in a dataset-epoch of a dataset without a validation split
\* the coordinating process emits only the train-loss message: no evaluation,
\* no correlation entries, no checkpoint comparison and no checkpoint.
C6_NoEvaluationWithoutValidation ==
    \A r \in Ranks :
        FinishedWithoutValidation(r) =>
            effects[r] \cap {"evaluate", "log_corr", "compare", "checkpoint"} = {}

\* C6, amended: in a dataset-epoch of a dataset without a validation split the
\* coordinating process prints the train-loss message that reports no
\* validation data and records no validation loss, and it still calls the
\* similarity evaluator, records the correlation entries and makes the
\* checkpoint comparison.
C6_NoValidationStillEvaluates ==
    \A r \in Ranks :
        FinishedWithoutValidation(r) =>
            /\ effects[r] \cap {"print_train_val", "log_val_loss"} = {}
            /\ {"print_no_val", "evaluate", "log_corr", "compare"} \subseteq effects[r]

\* Such a dataset-epoch ended with a checkpoint written.
C6_Witness ==
    \E r \in Ranks :
        /\ FinishedWithoutValidation(r)
        /\ "checkpoint" \in effects[r]
        /\ ckpt.at = Len(observed)

\* C7 as stated: a training dataset that is in the data mapping without a
\* train split is skipped, and the run goes on without an error, in train_loop
\* and in train_worker alike.
C7_MissingTrainSplitSkipped ==
    \A r \in Ranks :
        (\E i \in 1..Len(train_datasets) :
            "train" \notin DOMAIN loaders[r][train_datasets[i]])
        => err[r] # "KeyError_train"

\* C8 as stated: a schedule with warmup_steps > total_steps is not built: the
\* process fails with a configuration error before any optimization step.
C8_WarmupBeyondTotalFails ==
    \A r \in Ranks :
        warmup_steps > TotalSteps(loaders[r], train_datasets, num_epochs)
            => (scheduler[r] = "none" /\ global_step[r] = 0)

\* The multiplier of the process's schedule at its current step
Lr(r) == LrLambda(warmup_steps, total_steps[r], sched_steps[r])

\* C9 as stated: for warmup_steps >= 0 and total_steps >= warmup_steps the
\* multiplier is 0 at step 0, 1 at step = warmup_steps and 0 at step =
\* total_steps, linear in between on both sides.
C9_MultiplierAsStated ==
    \A r \in Ranks :
        (scheduler[r] = "built" /\ warmup_steps <= total_steps[r]) =>
            LET s == sched_steps[r]
                w == warmup_steps
                t == total_steps[r]
            IN  /\ s = 0 => Lr(r).num = 0
                /\ s = w => Lr(r).num = Lr(r).den
                /\ s = t => Lr(r).num = 0
                /\ s <= w => Lr(r).num * w = s * Lr(r).den
                /\ s >= w => Lr(r).num * (t - w) = (t - s) * Lr(r).den

\* C9, amended: for total_steps >= warmup_steps the multiplier is 0 at step 0
\* when warmup_steps >= 1 (with no warmup it starts at 1), 1 at step =
\* warmup_steps when warmup_steps < total_steps (with warmup_steps =
\* total_steps it is 0 there), and 0 at step = total_steps; it is
\* step / warmup_steps below warmup_steps and
\* (total_steps - step) / (total_steps - warmup_steps) from there on.
C9_MultiplierShape ==
    \A r \in Ranks :
        (scheduler[r] = "built" /\ warmup_steps <= total_steps[r]) =>
            LET s == sched_steps[r]
                w == warmup_steps
                t == total_steps[r]
            IN  /\ Lr(r).den >= 1
                /\ (s = 0 /\ w >= 1) => Lr(r).num = 0
                /\ (s = 0 /\ w = 0 /\ t >= 1) => Lr(r).num = Lr(r).den
                /\ (s = w /\ w < t) => Lr(r).num = Lr(r).den
                /\ (s = w /\ w = t) => Lr(r).num = 0
                /\ s = t => Lr(r).num = 0
                /\ s < w => Lr(r).num * w = s * Lr(r).den
                /\ (s >= w /\ w < t) => Lr(r).num * (t - w) = (t - s) * Lr(r).den

\* The end of a warmup of two steps, with steps left to decay over.
C9_Witness ==
    \E r \in Ranks :
        /\ scheduler[r] = "built"
        /\ warmup_steps = 2
        /\ total_steps[r] > 2
        /\ sched_steps[r] = 2
        /\ Lr(r) = [num |-> total_steps[r] - 2, den |-> total_steps[r] - 2]

\* C10 as stated: a worker that joined the process group has left it when it
\* ends, on the paths that raise as well.
C10_WorkerLeavesGroup ==
    \A r \in Ranks :
        pc[r] \in {"done", "raised"} => pg[r] # "joined"

\* The processes that were started
Started == {r \in Ranks : pc[r] # "idle"}

\* C11: train_ddp raises a configuration error when the device count is 0,
\* and then no worker is spawned, no process group is joined and no writer or
\* checkpoint is created; with n >= 1 devices it spawns exactly n workers, of
\* ranks 0..n-1 and world size n, and returns only after all of them finished.
C11_SpawnsOnePerDevice ==
    IsDdp =>
        /\ device_count = 0 =>
              /\ main \in {"start", "raised"}
              /\ Started = {}
              /\ \A r \in Ranks :
                    /\ pg[r] = "none"
                    /\ writer[r] = "none"
                    /\ all_effects[r] = {}
              /\ ckpt = NoCkpt
        /\ (device_count >= 1 /\ main # "start") =>
              /\ Started = 0..(device_count - 1)
              /\ \A r \in Started : \A d \in DatasetNames :
                    ("train" \in DOMAIN loaders[r][d]
                        /\ loaders[r][d]["train"].replicas # 1)
                    => /\ loaders[r][d]["train"].replicas = device_count
                       /\ loaders[r][d]["train"].rank = r
        /\ main = "returned" =>
              /\ device_count >= 1
              /\ \A r \in 0..(device_count - 1) : pc[r] = "done"

C11_Witness ==
    /\ IsDdp
    /\ device_count = MaxWorld
    /\ main = "returned"
    /\ \A r \in Ranks : pg[r] = "destroyed"
    /\ \E d \in DatasetNames :
        /\ "train" \in DOMAIN loaders[1][d]
        /\ loaders[1][d]["train"].replicas = MaxWorld

\* Batches per epoch of the train splits before any resharding
GlobalBatches(r) ==
    SumSeq([i \in 1..Len(train_datasets) |->
               IF "train" \in DOMAIN loaders[r][train_datasets[i]]
               THEN Ceil(loaders[r][train_datasets[i]]["train"].n, BatchSize)
               ELSE 0])

\* Batches per epoch of the train splits as a process sees them after resharding
ShardBatches(r) ==
    SumSeq([i \in 1..Len(train_datasets) |->
               IF "train" \in DOMAIN loaders[r][train_datasets[i]]
               THEN Ceil(Ceil(loaders[r][train_datasets[i]]["train"].n, WorldSize),
                         BatchSize)
               ELSE 0])

\* C12 as stated: in a distributed run total_steps is computed once from the
\* global (pre-shard) batch counts, before the train loaders are replaced by
\* rank-sharded loaders, and every process uses that same value.
C12_TotalStepsFromGlobalCounts ==
    \A r \in Ranks :
        (IsDdp /\ scheduler[r] = "built")
            => total_steps[r] = num_epochs * GlobalBatches(r)

\* C12, amended: in a distributed run each process computes total_steps once,
\* in train_loop, after its train loaders were replaced by rank-sharded ones,
\* from the per-rank batch counts (ceil(ceil(n / world_size) / batch_size) per
\* dataset, times num_epochs); the value is the same on every process.
C12_TotalStepsFromShardedCounts ==
    /\ [](\A r \in Ranks :
            (IsDdp /\ scheduler[r] = "built") =>
                /\ \A i \in 1..Len(train_datasets) :
                      /\ loaders[r][train_datasets[i]]["train"].replicas = WorldSize
                      /\ loaders[r][train_datasets[i]]["train"].rank = r
                /\ total_steps[r] = num_epochs * ShardBatches(r)
                /\ \A q \in Ranks :
                      scheduler[q] = "built" => total_steps[q] = total_steps[r])
    /\ [][\A r \in Ranks :
            scheduler[r] = "built" => total_steps'[r] = total_steps[r]]_vars

C12_Witness ==
    /\ IsDdp
    /\ WorldSize = MaxWorld
    /\ \A r \in Ranks : scheduler[r] = "built" /\ global_step[r] > 0
    /\ total_steps[0] = total_steps[1]
    /\ total_steps[0] > 0
    /\ total_steps[0] < num_epochs * GlobalBatches(0)

\* C13: log_metrics is a no-op that raises nothing when the sink is None;
\* when the sink is present it records exactly one entry, the value under the
\* key dataset_name/metric_name at the given step.
C13_LogIsNoOpWithoutSink ==
    call.status \notin {"idle", "pending"} =>
        /\ call.status = "returned"
        /\ call.sink = "none" => entries[0] = call.before
        /\ call.sink # "none" =>
              entries[0] = Append(call.before,
                                  [key |-> <<call.dataset_name, call.metric_name>>,
                                   value |-> call.value, step |-> call.step])

\* The process has replaced the train loader of the dataset by its shard
TrainSharded(r, d) ==
    /\ IsDdp
    /\ r \in Active
    /\ pc[r] \notin {"idle", "init_pg", "init_writer", "reshard"}
    /\ "train" \in DOMAIN loaders[r][d]
    /\ loaders[r][d]["train"].replicas = WorldSize

IndexSet(seq) == {seq[j] : j \in 1..Len(seq)}

\* The examples the process draws from the dataset in one epoch
Shard(r, d, perm) == SamplerIndices(loaders[r][d]["train"], perm)

\* Every process has its shard of the dataset, all at the same sampler epoch
AllSharded(d) ==
    \A r, q \in Active :
        /\ TrainSharded(r, d)
        /\ loaders[r][d]["train"].epoch = loaders[q][d]["train"].epoch

\* C14 as stated: for every world size, every dataset size and every epoch
\* the rank-sharded training samplers give the processes pairwise disjoint
\* index subsets of equal size whose union is the full dataset.
C14_ShardsPartition ==
    \A d \in DatasetNames : \A r, q \in Ranks :
        (TrainSharded(r, d) /\ TrainSharded(q, d)) =>
            \A perm \in Perms(loaders[r][d]["train"].n) :
                /\ Len(Shard(r, d, perm)) = Len(Shard(q, d, perm))
                /\ r # q => IndexSet(Shard(r, d, perm)) \cap IndexSet(Shard(q, d, perm)) = {}
                /\ AllSharded(d) =>
                      UNION {IndexSet(Shard(p, d, perm)) : p \in Active}
                          = 0..(loaders[r][d]["train"].n - 1)

\* C14, amended: the shards of one epoch have equal size ceil(N / w) and their
\* union is the full dataset; they are pairwise disjoint when w divides N, and
\* otherwise the w * ceil(N / w) - N padding examples are drawn by two processes.
C14_ShardsCoverEqually ==
    \A d \in DatasetNames : \A r, q \in Ranks :
        (TrainSharded(r, d) /\ TrainSharded(q, d)) =>
            LET n == loaders[r][d]["train"].n IN
            \A perm \in Perms(n) :
                /\ Len(Shard(r, d, perm)) = Ceil(n, WorldSize)
                /\ Cardinality(IndexSet(Shard(r, d, perm))) = Ceil(n, WorldSize)
                /\ (r # q /\ n % WorldSize = 0) =>
                      IndexSet(Shard(r, d, perm)) \cap IndexSet(Shard(q, d, perm)) = {}
                /\ AllSharded(d) =>
                      /\ UNION {IndexSet(Shard(p, d, perm)) : p \in Active} = 0..(n - 1)
                      /\ n % WorldSize # 0 =>
                            \E p1, p2 \in Active :
                                /\ p1 # p2
                                /\ IndexSet(Shard(p1, d, perm))
                                        \cap IndexSet(Shard(p2, d, perm)) # {}

C14_Witness ==
    /\ WorldSize = MaxWorld
    /\ \E d \in DatasetNames :
        /\ AllSharded(d)
        /\ loaders[0][d]["train"].n = MaxWorld
        /\ loaders[0][d]["train"].epoch = 1
        /\ \A perm \in Perms(MaxWorld) :
              IndexSet(Shard(0, d, perm)) \cap IndexSet(Shard(1, d, perm)) = {}

\* C15: the benchmark evaluation runs only on the coordinating process, on
\* the unwrapped model, over the full unsharded validation split of the
\* benchmark dataset; that loader is never replaced by a sharded one.
C15_EvaluationUnshardedOnMaster ==
    \A r \in Ranks :
        /\ "evaluate" \in all_effects[r] => r = 0
        /\ fwd[r].kind = "evaluate" =>
              /\ r = 0
              /\ fwd[r].on = "plain"
              /\ fwd[r].loader = loaders[r]["stsb"]["validation"]
        /\ "validation" \in DOMAIN loaders[r]["stsb"] =>
              loaders[r]["stsb"]["validation"]
                  = Loader(loaders[r]["stsb"]["validation"].n)

C15_Witness ==
    /\ IsDdp
    /\ WorldSize = MaxWorld
    /\ train_datasets = <<"stsb">>
    /\ embedder[0] = "ddp"
    /\ fwd[0].kind = "evaluate"
    /\ fwd[0].loader.n = MaxValExamples
    /\ val_loader[0] = Sharded(loaders[0]["stsb"]["validation"], MaxWorld, 0)
    /\ pc[1] = "backward"

\* The process is in the batch loop, or further in the dataset-epoch
InBatches(r) == pc[r] \in {"batch", "backward", "batch_step"}
InDatasetEpoch(r) == InBatches(r) \/ pc[r] \in {"validate", "evaluate"}

ValidationEffects == {"print_train_val", "log_val_loss", "print_no_val"}
EvaluationEffects ==
    {"evaluate", "print_stsb", "log_corr", "compare", "best", "checkpoint"}

\* C16: in a distributed run the training sampler of the dataset is set to
\* epoch e before the first training batch of the dataset-epoch is drawn; all
\* training batches of the dataset-epoch are processed before its validation
\* pass, which precedes the evaluation, its entries and the checkpoint
\* decision; in a single-process run the sampler's epoch is never set.
C16_DatasetEpochOrder ==
    \A r \in Ranks :
        /\ (IsDdp /\ InDatasetEpoch(r)) =>
              /\ loaders[r][CurrentName(r)]["train"].epoch = epoch[r]
              /\ ((batch_idx[r] > 0 \/ pc[r] = "backward") /\ fwd[r].kind = "train")
                    => fwd[r].loader.epoch = epoch[r]
        /\ ~IsDdp =>
              \A d \in DatasetNames : \A k \in DOMAIN loaders[r][d] :
                  loaders[r][d][k].epoch = 0
        /\ (InBatches(r) /\ (batch_idx[r] > 0 \/ pc[r] = "backward")) =>
              fwd[r].kind = "train"
        /\ InBatches(r) =>
              effects[r] \cap (ValidationEffects \cup EvaluationEffects) = {}
        /\ pc[r] = "validate" =>
              /\ batch_idx[r] = LoaderLen(loaders[r][CurrentName(r)]["train"])
              /\ fwd[r].kind = "train"
              /\ effects[r] \cap (ValidationEffects \cup EvaluationEffects) = {}
        /\ pc[r] = "evaluate" =>
              /\ batch_idx[r] = LoaderLen(loaders[r][CurrentName(r)]["train"])
              /\ fwd[r].kind = IF LoaderLen(val_loader[r]) > 0
                               THEN "validation" ELSE "train"
              /\ effects[r] \cap EvaluationEffects = {}
              /\ Gated(writer[r], r) => effects[r] \cap ValidationEffects # {}

C16_Witness ==
    /\ IsDdp
    /\ epoch[1] = 1
    /\ pc[1] = "evaluate"
    /\ fwd[1].kind = "validation"
    /\ loaders[1][CurrentName(1)]["train"].epoch = 1
    /\ effects[0] \cap EvaluationEffects # {}

\* The same loader object: its dataset and its sampler's shard, whatever epoch
\* the sampler was told
SameLoader(a, b) == a.n = b.n /\ a.replicas = b.replicas /\ a.rank = b.rank

\* C17: train and train_loop leave the experiment's loader mapping unchanged
\* (the sharded validation loader stays local); only train_worker replaces
\* entries, and exactly the "train" entry of each training dataset, leaving
\* the other splits, the other datasets, the dataset order, the epoch count
\* and the warmup count as they were.
C17_OnlyTrainEntriesReplaced ==
    [][/\ config' = config
       /\ \A r \in Ranks :
            /\ DOMAIN loaders'[r] = DOMAIN loaders[r]
            /\ \A d \in DatasetNames :
                  /\ DOMAIN loaders'[r][d] = DOMAIN loaders[r][d]
                  /\ \A k \in DOMAIN loaders[r][d] :
                        /\ (k # "train" \/ ~InOrder(train_datasets, d))
                              => loaders'[r][d][k] = loaders[r][d][k]
                        /\ pc[r] # "reshard"
                              => SameLoader(loaders'[r][d][k], loaders[r][d][k])
                        /\ ~IsDdp => loaders'[r][d][k] = loaders[r][d][k]
            /\ (pc[r] = "reshard" /\ pc'[r] = "setup") =>
                  \A i \in 1..Len(train_datasets) :
                      loaders'[r][train_datasets[i]]["train"]
                          = Sharded(loaders[r][train_datasets[i]]["train"],
                                    WorldSize, r)]_vars

C17_Witness ==
    /\ IsDdp
    /\ WorldSize = MaxWorld
    /\ train_datasets = <<"nli">>
    /\ pc[1] = "evaluate"
    /\ DOMAIN loaders[1]["nli"] = {"train", "validation"}
    /\ "validation" \in DOMAIN loaders[1]["stsb"]
    /\ val_loader[1] = Sharded(loaders[1]["nli"]["validation"], MaxWorld, 1)
    /\ loaders[1]["nli"]["validation"].replicas = 1
    /\ loaders[1]["nli"]["train"].replicas = MaxWorld
    /\ loaders[1]["stsb"]["validation"].replicas = 1

\* The process has ended: returned from train_loop or left the worker, raised,
\* or was terminated
Ended(r) == pc[r] \in {"returned", "done", "raised", "killed"}

\* C18: in a distributed run every rank issues the same gradient
\* synchronizations in the same order and the work of rank 0 alone holds no
\* collective call, so no rank waits at a synchronization point that a peer
\* never reaches, and every worker gets to the process-group teardown.
C18_NoRankWaitsForEndedPeer ==
    IsDdp =>
        \A r \in Active :
            pc[r] = "backward" => \A q \in Active : ~Ended(q)

\* C19: train_loop computes the average training loss and the average
\* validation loss without raising, for every split length >= 0, zero
\* batches included.
C19_AveragesNeverRaise ==
    \A r \in Ranks : err[r] # "ZeroDivisionError"

\* C20: every training batch is processed with the embedder in training
\* mode, also in the dataset-epochs that follow a validation pass or an
\* evaluation, which switched to evaluation mode; every validation and every
\* evaluation forward pass runs in evaluation mode with gradients disabled.
C20_ModesOfForwardPasses ==
    \A r \in Ranks :
        /\ InBatches(r) => training[r] /\ model_training[r]
        /\ fwd[r].kind = "train" => fwd[r].modes = {TRUE} /\ fwd[r].grad
        /\ fwd[r].kind \in {"validation", "evaluate"} =>
              fwd[r].modes = {FALSE} /\ ~fwd[r].grad

C20_Witness ==
    /\ pc[0] = "backward"
    /\ fwd[0].kind = "train"
    /\ fwd[0].modes = {TRUE}
    /\ {"log_val_loss", "log_corr"} \subseteq all_effects[0]
    /\ effects[0] = {}

====
